---- MODULE Spec2Model ----
(***************************************************************************)
(* A model of the MRPT Python extension module (src/cpp/mrptmodule.cpp):   *)
(* the mrptIndex object (ptr, data, mmap, n, dim), its construction from   *)
(* an in-memory array or a dataset file, build, the query methods, the     *)
(* vote filter and deallocation.  The engine class Mrpt (Mrpt.h) is not    *)
(* among the files under src/; its operations follow the contracts of the  *)
(* specification (sections 4.2 - 4.9) and are marked so.                   *)
(***************************************************************************)
EXTENDS Integers, Sequences, FiniteSets, TLC

VARIABLES phase, self, mem, bufs, engine, disk, call, initRes, fl, fcall, fprev,
          inits

vars == <<phase, self, mem, bufs, engine, disk, call, initRes, fl, fcall, fprev,
          inits>>

(***************************************************************************)
(* Bounds of the model.                                                    *)
(***************************************************************************)
MaxLen == 3      \* longest id list handed to filter_leaves_by_votes
MaxId == 2       \* largest id occurring in such a list
MaxVotes == 3    \* largest vote threshold tried (the smallest is -1)

Min(a, b) == IF a <= b THEN a ELSE b
Max(a, b) == IF a >= b THEN a ELSE b

SeqsUpTo(S, m) == UNION {[1..l -> S] : l \in 0..m}

NoCall == [op |-> "none"]

(***************************************************************************)
(* filter_leaves_by_votes (lines 225-245).                                 *)
(*                                                                         *)
(* votes is a VectorXi of num_leaves zeros; every list entry is used as an *)
(* index into it.  An entry outside 0..num_leaves-1 reads and writes a     *)
(* word outside the tally: the word's previous content is arbitrary        *)
(* (stray[id]) and the access is recorded in oob.                          *)
(***************************************************************************)
\* a word that no run of increments takes to a threshold
FarWord == 2 ^ 30

\* What a word behind the tally can hold: any 32-bit value.  The loop only
\* compares the word, after 1..MaxLen increments, with votes_required, so the
\* values from which some threshold of VoteThresholds can be reached are all
\* listed, together with the neighbouring ones, and FarWord and -FarWord stand
\* for every other content.
StrayWords == (-(MaxLen + 2))..MaxVotes \cup {FarWord, -FarWord}

VoteThresholds == -1..MaxVotes

\* VectorXi::Zero(num_leaves), line 233, extended by the words that lie
\* behind the tally, whose content the function never initialises.
ZeroVotes(num_leaves, stray) ==
    [id \in 0..MaxId |-> IF id < num_leaves THEN 0
                         ELSE IF id \in DOMAIN stray THEN stray[id] ELSE 0]

\* The list entries among the first num_leaves that index a word outside the tally.
StrayIds(leaves, num_leaves) ==
    {leaves[i] : i \in 1..num_leaves} \ (0..(num_leaves - 1))

\* the loop of lines 236-240: if (++votes(*leaves) == votes_required) push_back
RECURSIVE VoteLoop(_, _, _, _, _, _, _)
VoteLoop(leaves, num_leaves, votes_required, i, votes, voted, oob) ==
    IF i > num_leaves THEN [voted |-> voted, oob |-> oob]
    ELSE LET id == leaves[i]
             nv == [votes EXCEPT ![id] = @ + 1]
         IN  VoteLoop(leaves, num_leaves, votes_required, i + 1, nv,
                      IF nv[id] = votes_required THEN Append(voted, id) ELSE voted,
                      oob \/ id >= num_leaves)

\* vector_to_nparray (lines 185-206): a non-empty vector becomes an array of
\* the requested type; an empty one becomes a float array of length 0.
vector_to_nparray(vec, type_num) ==
    IF vec # <<>> THEN [dtype |-> type_num, data |-> vec]
    ELSE [dtype |-> "float", data |-> <<>>]

\* The method filter_leaves_by_votes applied to the list fl.
filter_leaves_by_votes(num_leaves, votes_required, stray, crash) ==
    LET r == VoteLoop(fl, num_leaves, votes_required, 1,
                      ZeroVotes(num_leaves, stray), <<>>, FALSE)
    IN  /\ fprev' = fcall
        /\ fcall' = [op |-> "filter_leaves_by_votes",
                     num_leaves |-> num_leaves,
                     votes_required |-> votes_required,
                     oob |-> r.oob,
                     crashed |-> crash,
                     ret |-> IF crash THEN [dtype |-> "none", data |-> <<>>]
                             ELSE vector_to_nparray(r.voted, "int")]
        /\ UNCHANGED <<phase, self, mem, bufs, engine, disk, call, initRes, fl,
                       inits>>


(***************************************************************************)
(* Unsigned arithmetic of 64 bits and more: a number is a little-endian    *)
(* sequence of base-256 digits.                                            *)
(***************************************************************************)
\* 2^30: with dim = 1 the first point count whose byte size leaves 32 bits
Pow2_30 == 2 ^ 30

Pow2_16 == 2 ^ 16

\* the 4 bytes of a non-negative 32-bit int
Bytes4(v) == [i \in 1..4 |-> (v \div (256 ^ (i - 1))) % 256]

\* the sum of the partial products of column c (1-based) of a * b
RECURSIVE ColumnSum(_, _, _, _)
ColumnSum(a, b, c, i) ==
    IF i > Len(a) THEN 0
    ELSE (IF c + 1 - i \in 1..Len(b) THEN a[i] * b[c + 1 - i] ELSE 0)
         + ColumnSum(a, b, c, i + 1)

RECURSIVE Propagate(_, _, _, _, _)
Propagate(a, b, c, carry, acc) ==
    IF c > Len(a) + Len(b) THEN acc
    ELSE LET d == ColumnSum(a, b, c, 1) + carry
         IN  Propagate(a, b, c + 1, d \div 256, Append(acc, d % 256))

\* the exact product of two digit sequences, Len(a) + Len(b) digits long
MulBytes(a, b) == Propagate(a, b, 1, 0, <<>>)

\* the low w digits: reduction modulo 256^w
LowBytes(a, w) == [i \in 1..w |-> IF i <= Len(a) THEN a[i] ELSE 0]

\* sizeof(float) * dim * n in size_t (64 bit) arithmetic, line 111; n and dim
\* are non-negative ints here, so their conversion to size_t keeps the value
SizeT_Product(n, dim) ==
    LowBytes(MulBytes(LowBytes(MulBytes(Bytes4(4), Bytes4(dim)), 8), Bytes4(n)), 8)

\* static_cast<unsigned>(...), line 111: the low 32 bits
ExpectedSize(n, dim) == LowBytes(SizeT_Product(n, dim), 4)

\* the comparison of line 111: st_size (off_t, 64 bit, here below 2^31)
\* against the unsigned value, both taken to 64 bit
SizeCheckPasses(st_size, n, dim) ==
    LowBytes(Bytes4(st_size), 8) = LowBytes(ExpectedSize(n, dim), 8)

\* the exact, non-wrapping value of 4 * n * dim
ExactBytes(n, dim) == MulBytes(MulBytes(Bytes4(4), Bytes4(dim)), Bytes4(n))

\* the int whose 4 bytes, in two's complement, are b
IntOfBytes(b) ==
    b[1] + 256 * b[2] + 65536 * b[3]
    + (2 ^ 24) * (IF b[4] >= 128 THEN b[4] - 256 ELSE b[4])

\* n * dim as the code computes it, an int product (lines 50, 56, 57, 74,
\* 151): a product beyond the int range keeps its low 32 bits
IntProduct(n, dim) == IntOfBytes(LowBytes(MulBytes(Bytes4(n), Bytes4(dim)), 4))

(***************************************************************************)
(* Construction: Mrpt_new, read_memory, read_mmap, Mrpt_init.              *)
(***************************************************************************)
\* Mrpt_new (lines 39-47): tp_alloc zero-fills the object, ptr and data are
\* NULL.  ptr is "NULL" or "engine"; data is 0 (NULL) or the position in bufs
\* of the buffer it points to.
NewObject == [ptr |-> "NULL", data |-> 0, mmap |-> FALSE, n |-> 0, dim |-> 0]

\* bufs lists, in the order of their creation, the dataset buffers the object
\* has been handed ("array") or has read ("heap") or mapped ("mmap") itself,
\* and the engines ("engine") a later Mrpt_init has replaced.  Each is "live",
\* "deleted", "unmapped" or "partly unmapped"; pages is the length of a
\* mapping in pages (0 for what is no mapping).  The engine ptr points to is
\* `engine`.
NoBufs == <<>>

\* the page of the system, in bytes and in floats
PageBytes == 2 ^ 12

PageFloats == PageBytes \div 4

\* the pages that cover count floats from the start of a page
Pages(count) ==
    (count \div PageFloats) + (IF count % PageFloats = 0 THEN 0 ELSE 1)

\* the pages of a call of mmap or munmap with the length
\* n * dim * sizeof(float), lines 74 and 151: the int n * dim goes to size_t
\* before it is multiplied, a negative one gives a length beyond every address
\* space, and such a length and the length 0 are refused
LengthPages(n, dim) ==
    IF IntProduct(n, dim) <= 0 THEN 0 ELSE Pages(IntProduct(n, dim))

Buffer(kind, pages) == [kind |-> kind, state |-> "live", pages |-> pages]

\* read_memory (lines 49-62): the buffer is allocated first, and new float[]
\* throws std::bad_alloc when the memory is not to be had and
\* std::bad_array_new_length on a negative length; a file that cannot be
\* opened or holds fewer than n * dim floats yields NULL and the buffer is not
\* given back.  n * dim is the int product in all three places.
read_memory(file, n, dim, fopenOK, allocOK) ==
    LET count == IntProduct(n, dim)
        read == Min(Len(file.floats), count)
        got == allocOK /\ count >= 0
    IN  [thrown |-> ~got,
         allocated |-> got,
         data |-> IF got /\ fopenOK /\ read = count THEN "heap" ELSE "NULL",
         floats |-> SubSeq(file.floats, 1, read)]

\* read_mmap (lines 65-85): maps n * dim * sizeof(float) bytes of the file,
\* n * dim being the int product; a mapping of a length the system refuses
\* yields NULL.
read_mmap(file, n, dim, fopenOK, mmapOK) ==
    [thrown |-> FALSE,
     allocated |-> FALSE,
     data |-> IF fopenOK /\ mmapOK /\ LengthPages(n, dim) > 0 THEN "mmap" ELSE "NULL",
     floats |-> file.floats]

\* the engine object right after new Mrpt(X, n_trees, depth, density), line 137
NewEngine(n_trees, depth) ==
    [state |-> "live", built |-> FALSE, grown |-> FALSE,
     n_trees |-> n_trees, depth |-> depth, trees |-> <<>>]

NoEngine ==
    [state |-> "none", built |-> FALSE, grown |-> FALSE,
     n_trees |-> 0, depth |-> 0, trees |-> <<>>]

\* the object exists: Python can call __init__ and the methods on it
Alive == phase \in {"new", "ready", "failed"}

\* line 137 overwrites ptr: an engine it pointed to stays allocated
Replaced(s) == IF s.ptr = "engine" THEN <<Buffer("engine", 0)>> ELSE <<>>

\* phase of an object on which an Mrpt_init has failed: its fields are as before
AfterFailure == IF self.ptr = "NULL" THEN "failed" ELSE "ready"

\* what an Mrpt_init call came to: ret is the value returned, and -1 also
\* where the call did not return (status "terminated")
InitOutcome(kind, n, dim, st_size, status, ret, exc, msg, sized) ==
    [op |-> "Mrpt_init", kind |-> kind, n |-> n, dim |-> dim, st_size |-> st_size,
     status |-> status, ret |-> ret, exc |-> exc, msg |-> msg, sized |-> sized]

\* Mrpt_init (lines 88-140), the Python 2 build.  py_data is a file name
\* (kind "file": exists, st_size, floats) or an array (kind "array": floats).
\* It runs on a fresh object and equally on one that is initialised already:
\* nothing looks at ptr or data before they are overwritten.  allocOK and
\* newOK say whether operator new finds memory, for new float[] of
\* read_memory (line 50) and for the two new of lines 136-137: it throws
\* std::bad_alloc otherwise, which nothing catches, and the process ends.
\* At lines 136-137 the fields data, mmap, n and dim are written already.
Mrpt_init(py_data, n, dim, depth, n_trees, mmapArg, fopenOK, mmapOK, allocOK, newOK) ==
    /\ Alive
    /\ call = NoCall
    /\ IF py_data.kind = "file"
       THEN IF ~py_data.exists
            THEN /\ initRes' = InitOutcome("file", n, dim, 0, "raised", -1,
                                           "IOError", "strerror", FALSE)
                 /\ phase' = AfterFailure
                 /\ UNCHANGED <<self, mem, bufs, engine>>
            ELSE IF ~SizeCheckPasses(py_data.st_size, n, dim)
            THEN /\ initRes' = InitOutcome("file", n, dim, py_data.st_size, "raised",
                                           -1, "ValueError",
                                           "Size of the input is not N x dim", FALSE)
                 /\ phase' = AfterFailure
                 /\ UNCHANGED <<self, mem, bufs, engine>>
            ELSE LET r == IF mmapArg THEN read_mmap(py_data, n, dim, fopenOK, mmapOK)
                          ELSE read_memory(py_data, n, dim, fopenOK, allocOK)
                 IN  IF r.thrown
                     THEN /\ initRes' = InitOutcome("file", n, dim, py_data.st_size,
                                                    "terminated", -1, "std::bad_alloc",
                                                    "", TRUE)
                          /\ phase' = "crashed"
                          /\ UNCHANGED <<self, mem, bufs, engine>>
                     ELSE IF r.data = "NULL"
                     THEN /\ initRes' = InitOutcome("file", n, dim, py_data.st_size,
                                                    "raised", -1, "IOError",
                                                    "Unable to read data from file or allocate memory for it",
                                                    TRUE)
                          /\ phase' = AfterFailure
                          /\ bufs' = IF r.allocated THEN Append(bufs, Buffer("heap", 0))
                                     ELSE bufs
                          /\ UNCHANGED <<self, mem, engine>>
                     ELSE IF ~newOK
                     THEN /\ initRes' = InitOutcome("file", n, dim, py_data.st_size,
                                                    "terminated", -1, "std::bad_alloc",
                                                    "", TRUE)
                          /\ phase' = "crashed"
                          /\ bufs' = Append(bufs, Buffer(r.data, IF mmapArg
                                                                  THEN LengthPages(n, dim)
                                                                  ELSE 0))
                          /\ self' = [self EXCEPT !.data = Len(bufs'), !.mmap = mmapArg,
                                                  !.n = n, !.dim = dim]
                          /\ UNCHANGED <<mem, engine>>
                     ELSE /\ initRes' = InitOutcome("file", n, dim, py_data.st_size,
                                                    "returned", 0, "none", "", TRUE)
                          /\ phase' = "ready"
                          /\ bufs' = Append(bufs \o Replaced(self),
                                            Buffer(r.data, IF mmapArg THEN LengthPages(n, dim)
                                                           ELSE 0))
                          /\ self' = [ptr |-> "engine", data |-> Len(bufs'),
                                      mmap |-> mmapArg, n |-> n, dim |-> dim]
                          /\ mem' = r.floats
                          /\ engine' = NewEngine(n_trees, depth)
       ELSE IF ~newOK
            THEN /\ initRes' = InitOutcome("array", n, dim, 0, "terminated", -1,
                                           "std::bad_alloc", "", FALSE)
                 /\ phase' = "crashed"
                 /\ self' = [self EXCEPT !.n = n, !.dim = dim]
                 /\ bufs' = Append(bufs, Buffer("array", 0))
                 /\ UNCHANGED <<mem, engine>>
            ELSE /\ initRes' = InitOutcome("array", n, dim, 0, "returned", 0, "none",
                                           "", FALSE)
                 /\ phase' = "ready"
                 /\ self' = [self EXCEPT !.ptr = "engine", !.n = n, !.dim = dim]
                 /\ mem' = py_data.floats
                 /\ bufs' = Append(bufs \o Replaced(self), Buffer("array", 0))
                 /\ engine' = NewEngine(n_trees, depth)
    /\ call' = NoCall
    /\ inits' = inits + 1
    /\ UNCHANGED <<disk, fl, fcall, fprev>>

\* a variant that ignores the mmap flag and always uses delete[]
ReleaseData_deleteOnly(s, b) ==
    IF s.data # 0 THEN [b EXCEPT ![s.data].state = "deleted"] ELSE b

\* The branch of lines 148-155: what the destructor does to the buffer data
\* points to.  A buffer that was read is given to delete[].  A mapping is
\* given to munmap with the length n * dim * sizeof(float) of the object's
\* current n and dim, not with the length it was mapped with: a length
\* munmap refuses leaves the mapping, a length that ends before the mapping's
\* last page unmaps the pages in front only, any other length unmaps the
\* mapping.
ReleaseData(s, b) ==
    IF s.data # 0
    THEN IF s.mmap
         THEN IF LengthPages(s.n, s.dim) = 0 THEN b
              ELSE IF LengthPages(s.n, s.dim) < b[s.data].pages
                   THEN [b EXCEPT ![s.data].state = "partly unmapped"]
                   ELSE [b EXCEPT ![s.data].state = "unmapped"]
         ELSE [b EXCEPT ![s.data].state = "deleted"]
    ELSE b

\* line 151: the pages behind the mapping's end that the length given to
\* munmap reaches
PagesBeyond(s, b) ==
    IF s.data # 0 /\ s.mmap /\ LengthPages(s.n, s.dim) > b[s.data].pages
    THEN LengthPages(s.n, s.dim) - b[s.data].pages
    ELSE 0

\* mrpt_dealloc (lines 147-159); it runs on every object, also on one that was
\* never initialised or whose Mrpt_init failed.  Where munmap reaches behind
\* the mapping it unmaps whatever the process has there: nothing, any of the
\* other buffers (victims), the engine, or memory that is none of these
\* (an entry "foreign"), the code and data of the interpreter and the loader
\* included.  Then the process can end inside the destructor (phase
\* "killed"): at delete (line 157) if the engine is gone, or with the engine
\* released at the call of tp_free (line 158) if the code it needs is gone.
mrpt_dealloc ==
    /\ Alive
    /\ call = NoCall
    /\ LET b1 == ReleaseData(self, bufs)
           reach == PagesBeyond(self, bufs) > 0
       IN  \E victims \in SUBSET (IF reach
                                  THEN {i \in DOMAIN bufs :
                                          i # self.data /\ bufs[i].state = "live"}
                                  ELSE {}),
              foreign \in IF reach THEN BOOLEAN ELSE {FALSE},
              engineHit \in IF reach /\ self.ptr # "NULL" THEN BOOLEAN ELSE {FALSE} :
              \E killed \in IF engineHit THEN {TRUE}
                            ELSE IF foreign THEN BOOLEAN ELSE {FALSE} :
                 /\ bufs' = [i \in DOMAIN b1 |->
                               IF i \in victims
                               THEN [b1[i] EXCEPT !.state = "unmapped"]
                               ELSE b1[i]]
                            \o (IF foreign
                                THEN <<[kind |-> "foreign", state |-> "unmapped",
                                        pages |-> 0]>>
                                ELSE <<>>)
                 /\ engine' = IF self.ptr = "NULL" THEN engine
                              ELSE IF engineHit
                                   THEN [engine EXCEPT !.state = "unmapped"]
                                   ELSE [engine EXCEPT !.state = "released"]
                 /\ phase' = IF killed THEN "killed" ELSE "freed"
    /\ UNCHANGED <<self, mem, disk, call, initRes, fl, fcall, fprev, inits>>

(***************************************************************************)
(* Construction from a dataset file with large n: the size check.          *)
(***************************************************************************)
\* (n, dim) pairs whose product fits an int while 4 * n * dim need not fit 32
\* bits, and pairs whose product is beyond the int range
InitShapes ==
    {<<n, dim>> : n \in 0..3, dim \in 1..3}
    \cup {<<Pow2_30 + j, 1>> : j \in 0..2}
    \cup {<<1, Pow2_30 + j>> : j \in 0..2}
    \cup {<<(Pow2_30 \div 2) + j, 2>> : j \in 0..1}
    \cup {<<Pow2_16, Pow2_16 + 1>>, <<Pow2_16, Pow2_16>>, <<Pow2_16, Pow2_16 \div 2>>}

\* dataset files of 0..MaxFileFloats floats, possibly with a broken tail
MaxFileFloats == 9

InitFiles ==
    {[kind |-> "file", exists |-> TRUE, st_size |-> 4 * c + x,
      floats |-> [i \in 1..c |-> 0]] : c \in 0..MaxFileFloats, x \in {0, 2}}
    \cup {[kind |-> "file", exists |-> TRUE, st_size |-> 4 * Pow2_16,
           floats |-> [i \in 1..Pow2_16 |-> 0]]}
    \cup {[kind |-> "file", exists |-> FALSE, st_size |-> 0, floats |-> <<>>]}

InitInit ==
    /\ phase = "new"
    /\ self = NewObject
    /\ mem = <<>>
    /\ bufs = NoBufs
    /\ engine = NoEngine
    /\ disk = [exists |-> FALSE]
    /\ call = NoCall
    /\ initRes = NoCall
    /\ fl = <<>>
    /\ fcall = NoCall
    /\ fprev = NoCall
    /\ inits = 0

NextInit ==
    \/ /\ phase = "new"
       /\ \E f \in InitFiles, s \in InitShapes, mmapArg \in BOOLEAN,
             fopenOK \in BOOLEAN, mmapOK \in BOOLEAN, allocOK \in BOOLEAN,
             newOK \in BOOLEAN :
              Mrpt_init(f, s[1], s[2], 0, 1, mmapArg, fopenOK, mmapOK, allocOK, newOK)
    \/ mrpt_dealloc

SpecInit == InitInit /\ [][NextInit]_vars
(***************************************************************************)
(* The engine class Mrpt.  Its source is not under src/; the operators     *)
(* below follow the specification: sections 4.2 (tree                      *)
(* build), 4.3 (route), 4.4 (grow), 4.5 (approximate query), 4.6 (exact    *)
(* distance engine) and 4.9 (persistence).  Points are columns of the      *)
(* dim x n matrix mapped over the dataset buffer (line 136); coordinates   *)
(* and projection entries are small integers.                              *)
(***************************************************************************)
\* column i (0-based) of the matrix Eigen::Map(data, dim, n), line 136
Point(buf, dim, i) == SubSeq(buf, i * dim + 1, (i + 1) * dim)

RECURSIVE Dot(_, _)
Dot(a, b) == IF a = <<>> THEN 0 ELSE Head(a) * Head(b) + Dot(Tail(a), Tail(b))

RECURSIVE SqDist(_, _)
SqDist(a, b) ==
    IF a = <<>> THEN 0
    ELSE (Head(a) - Head(b)) * (Head(a) - Head(b)) + SqDist(Tail(a), Tail(b))

\* squared Euclidean distance of point i to the query
DistTo(buf, dim, q, i) == SqDist(Point(buf, dim, i), q)

\* section 4.6: a is ranked before b; ties go to the smaller point index
Before(buf, dim, q, a, b) ==
    \/ DistTo(buf, dim, q, a) < DistTo(buf, dim, q, b)
    \/ DistTo(buf, dim, q, a) = DistTo(buf, dim, q, b) /\ a < b

RECURSIVE KSmallest(_, _, _, _, _)
KSmallest(buf, dim, q, cands, k) ==
    IF k <= 0 \/ cands = {} THEN <<>>
    ELSE LET m == CHOOSE a \in cands :
                     \A b \in cands \ {a} : Before(buf, dim, q, a, b)
         IN  <<m>> \o KSmallest(buf, dim, q, cands \ {m}, k - 1)

\* section 4.6, exact_knn: the k nearest among the first n_elected entries of
\* indices, at most k and at most as many as there are candidates
exact_knn(buf, dim, q, k, indices, n_elected) ==
    LET idx == KSmallest(buf, dim, q, {indices[i] : i \in 1..n_elected}, k)
    IN  [idx |-> idx, dist |-> [i \in 1..Len(idx) |-> DistTo(buf, dim, q, idx[i])]]

\* section 4.2: the lower median of the projections
LowerMedian(vals) ==
    LET m == Len(vals)
        pos == (m - 1) \div 2
    IN  CHOOSE v \in {vals[i] : i \in 1..m} :
            /\ Cardinality({i \in 1..m : vals[i] < v}) <= pos
            /\ Cardinality({i \in 1..m : vals[i] <= v}) > pos

\* section 4.2, build: rng gives the projection vector of every node
RECURSIVE BuildTree(_, _, _, _, _, _)
BuildTree(buf, dim, indices, depth, rng, node) ==
    IF depth = 0 \/ Len(indices) <= 1
    THEN [type |-> "Leaf", points |-> indices]
    ELSE LET proj == rng[node]
             pv == [i \in 1..Len(indices) |-> Dot(proj, Point(buf, dim, indices[i]))]
             med == LowerMedian(pv)
             Below(x) == Dot(proj, Point(buf, dim, x)) < med
             AtLeast(x) == Dot(proj, Point(buf, dim, x)) >= med
             l0 == SelectSeq(indices, Below)
             r0 == SelectSeq(indices, AtLeast)
             half == Len(indices) \div 2
             degenerate == l0 = <<>> \/ r0 = <<>>
             l == IF degenerate THEN SubSeq(indices, 1, half) ELSE l0
             r == IF degenerate THEN SubSeq(indices, half + 1, Len(indices)) ELSE r0
         IN  [type |-> "Internal", projection |-> proj, split_value |-> med,
              left |-> BuildTree(buf, dim, l, depth - 1, rng, 2 * node),
              right |-> BuildTree(buf, dim, r, depth - 1, rng, 2 * node + 1)]

\* section 4.3, route: the point-index list of the leaf the query falls into
RECURSIVE Route(_, _)
Route(tree, q) ==
    IF tree.type = "Leaf" THEN tree.points
    ELSE IF Dot(tree.projection, q) < tree.split_value THEN Route(tree.left, q)
         ELSE Route(tree.right, q)

\* section 4.5 step 2: the leaf memberships of the query over all trees
RECURSIVE Memberships(_, _, _)
Memberships(trees, q, t) ==
    IF t > Len(trees) THEN <<>>
    ELSE Route(trees[t], q) \o Memberships(trees, q, t + 1)

\* section 4.5 step 3: a point joins the candidate set, once, with the vote
\* that brings its count to the threshold; a threshold <= 1 admits every point
CandidateSet(memberships, vote_threshold) ==
    LET t == Max(vote_threshold, 1)
        Reaches(i) == Cardinality({j \in 1..i : memberships[j] = memberships[i]}) = t
        Hits == {i \in 1..Len(memberships) : Reaches(i)}
        Pos(r) == CHOOSE i \in Hits : Cardinality({j \in Hits : j < i}) = r - 1
    IN  [r \in 1..Cardinality(Hits) |-> memberships[Pos(r)]]

\* sections 4.4 and 4.5 step 1: what the engine verifies before a query
Validate(eng, dim, q) ==
    IF ~eng.built THEN "NotBuilt"
    ELSE IF Len(q) # dim THEN "DimensionMismatch"
    ELSE "ok"

\* section 4.5, approximate_query from given leaf memberships (steps 3-5)
query_from_leaves(eng, buf, dim, q, leaves, num_leaves, k, elect) ==
    LET err == Validate(eng, dim, q)
        cand == CandidateSet(SubSeq(leaves, 1, num_leaves), elect)
        r == exact_knn(buf, dim, q, k, cand, Len(cand))
    IN  IF err # "ok" THEN [err |-> err, idx |-> <<>>, dist |-> <<>>, cand |-> <<>>]
        ELSE [err |-> "ok", idx |-> r.idx, dist |-> r.dist, cand |-> cand]

\* section 4.5, approximate_query
query(eng, buf, dim, q, k, elect) ==
    IF Validate(eng, dim, q) # "ok"
    THEN [err |-> Validate(eng, dim, q), idx |-> <<>>, dist |-> <<>>, cand |-> <<>>]
    ELSE LET m == Memberships(eng.trees, q, 1)
         IN  query_from_leaves(eng, buf, dim, q, m, Len(m), k, elect)

\* leaves_for (section 6): the leaf memberships of the query
get_leaf_indices(eng, dim, q) ==
    IF Validate(eng, dim, q) # "ok"
    THEN [err |-> Validate(eng, dim, q), leaves |-> <<>>]
    ELSE [err |-> "ok", leaves |-> Memberships(eng.trees, q, 1)]

\* section 4.6 behind exact_query (section 6: over a forest or a bare
\* dataset, so it does not ask for a built forest); section 8 has it refuse
\* a query vector of the wrong dimensionality
exact_query(eng, buf, dim, q, k, indices, n_elected) ==
    IF Len(q) # dim
    THEN [err |-> "DimensionMismatch", idx |-> <<>>, dist |-> <<>>, cand |-> <<>>]
    ELSE LET r == exact_knn(buf, dim, q, k, indices, n_elected)
         IN  [err |-> "ok", idx |-> r.idx, dist |-> r.dist,
              cand |-> SubSeq(indices, 1, n_elected)]

\* section 4.4, grow: n_trees trees over all points, one rng per tree; the
\* transition to built happens once, a built forest keeps its trees
grow(eng, buf, n, dim, rngs) ==
    IF eng.built THEN [eng EXCEPT !.grown = TRUE]
    ELSE [eng EXCEPT !.built = TRUE, !.grown = TRUE,
                     !.trees = [t \in 1..eng.n_trees |->
                                  BuildTree(buf, dim, [i \in 1..n |-> i - 1],
                                            eng.depth, rngs[t], 1)]]

\* section 4.9, save: the structural state and the metadata
Serialize(eng, n, dim) ==
    [exists |-> TRUE, n |-> n, dim |-> dim, n_trees |-> eng.n_trees,
     depth |-> eng.depth, trees |-> eng.trees]

\* section 4.9, load: FormatError on metadata that disagrees with the dataset,
\* CorruptData on a tree sequence that does not match the metadata
LoadError(file, n, dim) ==
    IF ~file.exists THEN "IOError"
    ELSE IF file.n # n \/ file.dim # dim THEN "FormatError"
    ELSE IF Len(file.trees) # file.n_trees THEN "CorruptData"
    ELSE "ok"

Deserialize(eng, file) ==
    [eng EXCEPT !.built = TRUE, !.n_trees = file.n_trees, !.depth = file.depth,
                !.trees = file.trees]

(***************************************************************************)
(* The methods of the index object.                                        *)
(*                                                                         *)
(* Every query method allocates its result arrays before it calls the      *)
(* engine.  PyArray_SimpleNew leaves the slots uninitialised: every slot   *)
(* holds, on its own, whatever the heap held there, an int word in the     *)
(* index array and a float bit pattern in the distance array.  The method  *)
(* calls the engine for its effect only and returns the arrays.  No method *)
(* catches an exception or tests a status; an engine failure either leaves *)
(* the arrays as allocated or, when it is raised as a C++ exception, ends  *)
(* the process.  `call` is the call the caller has made last and whose     *)
(* result it holds; qs are the vectors the method handed to the engine.    *)
(***************************************************************************)
\* What an unwritten slot of an index array can hold: any 32-bit word.  The
\* values stand for a negative word, the point ids 0 and 1, a small word that
\* is no point id and a large one.
LeftoverWords == {-1, 0, 1, 7, FarWord}

\* What an unwritten slot of a distance array can hold: any float.  The values
\* stand for a negative float, zero (also the distance of an exact hit) and a
\* float beyond every distance of the dataset.
LeftoverFloats == {-1, 0, FarWord}

\* the slots <<row, i>> of a result array of Len(rows) x k slots that the
\* engine has not written
Unwritten(rows, k) ==
    {s \in (1..Len(rows)) \X (1..k) : s[2] > Len(rows[s[1]].idx)}

\* row r of a freshly allocated array after the engine has written `written`;
\* g gives the heap's content for the slots left alone
Fill(written, r, k, g) ==
    [i \in 1..k |-> IF i <= Len(written) THEN written[i] ELSE g[<<r, i>>]]

\* PyArray_DATA(v): the array's buffer, row after row
RECURSIVE PyArray_DATA(_)
PyArray_DATA(rows) ==
    IF rows = <<>> THEN <<>> ELSE Head(rows) \o PyArray_DATA(Tail(rows))

\* PyArray_DIM(v, 0): the length of a 1-D array, the row count of a 2-D one
PyArray_DIM0(v) == IF v.ndim = 1 THEN Len(v.rows[1]) ELSE Len(v.rows)

\* Eigen::Map<VectorXf>(indata, dim) with dim = PyArray_DIM(v, 0), lines 219-220
\* and 258, 265: the first dim floats of the buffer, whatever the array's shape
FirstAxisVector(v) == SubSeq(PyArray_DATA(v.rows), 1, PyArray_DIM0(v))

\* std::iota(idx.data(), idx.data() + self->n, 0), lines 369-370
Iota(n) == [i \in 1..n |-> i - 1]

NoArg == [ndim |-> 0, rows |-> <<>>]

\* self->ptr->... on an object whose ptr is NULL (never initialised, or every
\* Mrpt_init on it failed): no method tests ptr, the engine call reads through
\* the NULL pointer and the process ends
NullDeref(op, v, qs, k, elect) ==
    /\ self.ptr = "NULL"
    /\ call' = [op |-> op, v |-> v, qs |-> qs, k |-> k, elect |-> elect,
                built |-> FALSE, grown |-> FALSE,
                errs |-> [r \in 1..Len(qs) |-> "NullPointer"],
                cands |-> [r \in 1..Len(qs) |-> <<>>],
                status |-> "terminated", exc |-> "none", ret |-> <<>>]
    /\ phase' = "crashed"

\* the part common to ann (lines 285-337), ann_from_leaves (lines 255-275) and
\* exact_search (lines 366-420): rows holds the engine's outcome per query row
Reply(op, v, qs, k, elect, return_distances, rows) ==
    LET failed == \E r \in 1..Len(rows) : rows[r].err # "ok"
        rec(status, ret) ==
            [op |-> op, v |-> v, qs |-> qs, k |-> k, elect |-> elect,
             built |-> engine.built, grown |-> engine.grown,
             errs |-> [r \in 1..Len(rows) |-> rows[r].err],
             cands |-> [r \in 1..Len(rows) |-> rows[r].cand],
             status |-> status, exc |-> "none", ret |-> ret]
    IN  /\ Alive
        /\ call = NoCall
        /\ \/ NullDeref(op, v, qs, k, elect)
           \/ \E gi \in [Unwritten(rows, k) -> LeftoverWords],
                 gd \in [IF return_distances THEN Unwritten(rows, k) ELSE {}
                           -> LeftoverFloats] :
                 /\ self.ptr # "NULL"
                 /\ call' = rec("returned",
                                [r \in 1..Len(rows) |->
                                   [idx |-> Fill(rows[r].idx, r, k, gi),
                                    dist |-> IF return_distances
                                             THEN Fill(rows[r].dist, r, k, gd)
                                             ELSE <<>>]])
                 /\ phase' = phase
           \/ /\ self.ptr # "NULL"
              /\ failed
              /\ call' = rec("terminated", <<>>)
              /\ phase' = "crashed"
        /\ UNCHANGED <<self, mem, bufs, engine, disk, initRes, fl, fcall, fprev, inits>>

\* build (lines 142-145)
build(rngs) ==
    /\ Alive
    /\ call = NoCall
    /\ \/ /\ NullDeref("build", NoArg, <<>>, 0, 0)
          /\ engine' = engine
       \/ /\ self.ptr # "NULL"
          /\ engine' = grow(engine, mem, self.n, self.dim, rngs)
          /\ call' = [op |-> "build", v |-> NoArg, qs |-> <<>>, k |-> 0, elect |-> 0,
                      built |-> engine.built, grown |-> engine.grown, errs |-> <<>>,
                      cands |-> <<>>, status |-> "returned", exc |-> "none",
                      ret |-> <<>>]
          /\ phase' = phase
    /\ UNCHANGED <<self, mem, bufs, disk, initRes, fl, fcall, fprev, inits>>

\* ann (lines 278-338): one query vector (NDIM 1) or one per row (NDIM 2)
ann(v, k, elect, return_distances) ==
    Reply("ann", v, v.rows, k, elect, return_distances,
          [r \in 1..Len(v.rows) |-> query(engine, mem, self.dim, v.rows[r], k, elect)])

\* ann_from_leaves (lines 247-276): one query vector, taken from the front of
\* v's buffer whatever v's shape, and a list of leaves
ann_from_leaves(v, l, num_leaves, k, elect, return_distances) ==
    Reply("ann_from_leaves", v, <<FirstAxisVector(v)>>, k, elect, return_distances,
          <<query_from_leaves(engine, mem, self.dim, FirstAxisVector(v), l,
                              num_leaves, k, elect)>>)

\* a variant that hands the engine one candidate too few
ExactSearchRow_shortScan(eng, buf, n, dim, q, k) ==
    exact_query(eng, buf, dim, q, k, Iota(n), n - 1)

\* the engine call of exact_search for one query vector, lines 382, 389, 406, 415
ExactSearchRow(eng, buf, n, dim, q, k) ==
    exact_query(eng, buf, dim, q, k, Iota(n), n)

\* exact_search (lines 359-421)
exact_search(v, k, return_distances) ==
    Reply("exact_search", v, v.rows, k, 0, return_distances,
          [r \in 1..Len(v.rows) |->
             ExactSearchRow(engine, mem, self.n, self.dim, v.rows[r], k)])

\* get_leaves (lines 208-223): the leaf memberships of the vector at the front
\* of v's buffer, as an int array
get_leaves(v) ==
    /\ Alive
    /\ call = NoCall
    /\ \/ NullDeref("get_leaves", v, <<FirstAxisVector(v)>>, 0, 0)
       \/ LET r == get_leaf_indices(engine, self.dim, FirstAxisVector(v))
          IN  \E thrown \in {FALSE} \cup {r.err # "ok"} :
                 /\ self.ptr # "NULL"
                 /\ call' = [op |-> "get_leaves", v |-> v,
                             qs |-> <<FirstAxisVector(v)>>, k |-> 0, elect |-> 0,
                             built |-> engine.built, grown |-> engine.grown,
                             errs |-> <<r.err>>, cands |-> <<r.leaves>>,
                             status |-> IF thrown THEN "terminated" ELSE "returned",
                             exc |-> "none",
                             ret |-> IF thrown THEN <<>>
                                     ELSE <<vector_to_nparray(r.leaves, "int")>>]
                 /\ phase' = IF thrown THEN "crashed" ELSE phase
    /\ UNCHANGED <<self, mem, bufs, engine, disk, initRes, fl, fcall, fprev, inits>>

\* get_nearest_leaves (lines 340-357): the k nearest of the points listed in
\* leaves to the vector at the front of v's buffer, as an int array of k
\* slots.  It calls the engine's exact_knn itself, which tests neither the
\* flags of the index nor the vector's length: on a vector of another length
\* than dim the subtraction of section 4.6 is undefined, and the call ends the
\* process or leaves the slots as they were.
get_nearest_leaves(v, leaves, num_leaves, k) ==
    LET q == FirstAxisVector(v)
        r == exact_knn(mem, self.dim, q, k, leaves, num_leaves)
    IN  Reply("get_nearest_leaves", v, <<q>>, k, 0, FALSE,
              <<IF Len(q) = self.dim
                THEN [err |-> "ok", idx |-> r.idx, dist |-> <<>>,
                      cand |-> SubSeq(leaves, 1, num_leaves)]
                ELSE [err |-> "undefined", idx |-> <<>>, dist |-> <<>>,
                      cand |-> SubSeq(leaves, 1, num_leaves)]>>)

\* get_leaf_info (lines 161-183): a dict with a float array of `dimensions`
\* slots under every one of the first len ints of v's buffer; a key that
\* comes again replaces its entry.  The engine fills the arrays (line 174);
\* what it writes is recorded nowhere here, the dict is given by its keys and
\* the length of their arrays.  With len <= 0 the engine is not touched.
get_leaf_info(v, len, dimensions) ==
    LET leaf_indices == PyArray_DATA(v.rows)
        rec(status, ret) ==
            [op |-> "get_leaf_info", v |-> v, qs |-> <<>>, k |-> dimensions,
             elect |-> len, built |-> engine.built, grown |-> engine.grown,
             errs |-> <<>>, cands |-> <<>>, status |-> status, exc |-> "none",
             ret |-> ret]
    IN  /\ Alive
        /\ call = NoCall
        /\ \/ /\ len > 0
              /\ NullDeref("get_leaf_info", v, <<>>, dimensions, len)
           \/ /\ len <= 0 \/ self.ptr # "NULL"
              /\ call' = rec("returned",
                             <<[keys |-> {leaf_indices[i] : i \in 1..len},
                                shape |-> dimensions]>>)
              /\ phase' = phase
        /\ UNCHANGED <<self, mem, bufs, engine, disk, initRes, fl, fcall, fprev, inits>>

\* save (lines 423-435)
save(ioOK) ==
    /\ Alive
    /\ call = NoCall
    /\ \/ /\ NullDeref("save", NoArg, <<>>, 0, 0)
          /\ disk' = disk
       \/ /\ self.ptr # "NULL"
          /\ disk' = IF ioOK THEN Serialize(engine, self.n, self.dim) ELSE disk
          /\ call' = [op |-> "save", v |-> NoArg, qs |-> <<>>, k |-> 0, elect |-> 0,
                      built |-> engine.built, grown |-> engine.grown, errs |-> <<>>,
                      cands |-> <<>>,
                      status |-> IF ioOK THEN "returned" ELSE "raised",
                      exc |-> IF ioOK THEN "none" ELSE "IOError", ret |-> <<>>]
          /\ phase' = phase
    /\ UNCHANGED <<self, mem, bufs, engine, initRes, fl, fcall, fprev, inits>>

\* load (lines 437-449)
load ==
    LET err == LoadError(disk, self.n, self.dim)
    IN  /\ Alive
        /\ call = NoCall
        /\ \/ /\ NullDeref("load", NoArg, <<>>, 0, 0)
              /\ engine' = engine
           \/ /\ self.ptr # "NULL"
              /\ engine' = IF err = "ok" THEN Deserialize(engine, disk)
                           ELSE [engine EXCEPT !.built = FALSE, !.trees = <<>>]
              /\ call' = [op |-> "load", v |-> NoArg, qs |-> <<>>, k |-> 0,
                          elect |-> 0, built |-> engine.built,
                          grown |-> engine.grown,
                          errs |-> <<err>>, cands |-> <<>>,
                          status |-> IF err = "ok" THEN "returned" ELSE "raised",
                          exc |-> IF err = "ok" THEN "none" ELSE "IOError",
                          ret |-> <<>>]
              /\ phase' = phase
        /\ UNCHANGED <<self, mem, bufs, disk, initRes, fl, fcall, fprev, inits>>

\* the caller drops the result of its last call
Return ==
    /\ Alive
    /\ call # NoCall
    /\ call' = NoCall
    /\ UNCHANGED <<phase, self, mem, bufs, engine, disk, initRes, fl, fcall, fprev, inits>>

(***************************************************************************)
(* The index object's life: inputs and the specification.                  *)
(***************************************************************************)
MaxN == 3        \* points in a dataset
MaxK == 3        \* neighbours asked for

Coords == {0, 1}

Dims == {1, 2}

RowCounts == {1, 2}

\* entries of a projection vector of density 1
ProjEntries == {-1, 1}

Arrays(n, dim) == {[kind |-> "array", floats |-> f] : f \in [1..(n * dim) -> Coords]}

\* the dataset whose point j (0-based) has every coordinate j % 2
Ramp(n, dim) ==
    [kind |-> "array", floats |-> [i \in 1..(n * dim) |-> ((i - 1) \div dim) % 2]]

\* dataset files: one of every length, and a missing one
Files(maxFloats) ==
    {[kind |-> "file", exists |-> TRUE, st_size |-> 4 * c,
      floats |-> [i \in 1..c |-> i % 2]] : c \in 1..maxFloats}
    \cup {[kind |-> "file", exists |-> FALSE, st_size |-> 0, floats |-> <<>>]}

Vectors == UNION {[1..d -> Coords] : d \in Dims}

Queries ==
    {[ndim |-> 1, rows |-> <<q>>] : q \in Vectors}
    \cup {[ndim |-> 2, rows |-> rs] :
            rs \in UNION {[1..r -> [1..d -> Coords]] : r \in RowCounts, d \in Dims}}

Rngs(n_trees, depth, dim) ==
    [1..n_trees -> [1..((2 ^ depth) - 1) -> [1..dim -> ProjEntries]]]

\* a forest another index object has saved earlier: one tree of depth 0 over
\* a dataset of two points of dimension 1
SavedForests ==
    {Serialize(grow(NewEngine(1, 0), [i \in 1..(s[1] * s[2]) |-> 0], s[1], s[2],
                    <<<<>>>>), s[1], s[2]) :
        s \in {<<2, 1>>}}

Init ==
    /\ phase = "new"
    /\ self = NewObject
    /\ mem = <<>>
    /\ bufs = NoBufs
    /\ engine = NoEngine
    /\ disk \in {[exists |-> FALSE]} \cup SavedForests
    /\ call = NoCall
    /\ initRes = NoCall
    /\ fl = <<>>
    /\ fcall = NoCall
    /\ fprev = NoCall
    /\ inits = 0

\* the caller can make a call: the object exists and no result is pending.  The
\* method table (lines 451-473) offers every method on every object, whether
\* Mrpt_init has run on it or not.
CanCall == Alive /\ call = NoCall

\* the query arrays of the index's life: every vector, and the 2-D arrays of
\* every shape filled with one coordinate
Probes ==
    {v \in Queries :
        v.ndim = 2 => \A r \in 1..Len(v.rows) : \A i \in 1..Len(v.rows[r]) :
                         v.rows[r][i] = v.rows[1][1]}

\* the slots of the result arrays of a query: Len(v.rows) x k ints and, with
\* distances, as many floats
Slots(v, k, return_distances) ==
    Len(v.rows) * k * (IF return_distances THEN 2 ELSE 1)

\* the forests of the index's life, as <<n_trees, depth>>
Forests == {<<1, 0>>, <<1, 1>>, <<2, 0>>, <<2, 1>>}

\* the query arrays whose rows have the length dim
Matching(dim) == {v \in Queries : \A r \in 1..Len(v.rows) : Len(v.rows[r]) = dim}

\* The life of one index object over the ramp dataset of one or two points,
\* with the forests of Forests.  Queries ask for one or two neighbours and
\* get result arrays of at most two slots in all.
Next ==
    \/ /\ phase = "new"
       /\ \E n \in {1, 2}, dim \in Dims, f \in Forests :
             \E newOK \in BOOLEAN :
                Mrpt_init(Ramp(n, dim), n, dim, f[2], f[1], FALSE, TRUE, TRUE, TRUE,
                          newOK)
    \/ /\ phase = "new"
       /\ \E n \in {1, 2}, dim \in Dims, f \in Forests :
             \E file \in Files(4), mmapArg \in BOOLEAN, fopenOK \in BOOLEAN,
                mmapOK \in BOOLEAN, allocOK \in BOOLEAN, newOK \in BOOLEAN :
                Mrpt_init(file, n, dim, f[2], f[1], mmapArg, fopenOK, mmapOK, allocOK,
                          newOK)
    \/ /\ CanCall
       /\ \E rngs \in Rngs(engine.n_trees, engine.depth, self.dim) : build(rngs)
    \/ /\ CanCall
       /\ \E v \in Probes, k \in {1, 2}, rd \in BOOLEAN, elect \in {1, 2} :
             /\ Slots(v, k, rd) <= 2
             /\ ann(v, k, elect, rd)
    \/ /\ CanCall
       /\ \E v \in Probes, k \in {1, 2}, rd \in BOOLEAN :
             /\ Slots(v, k, rd) <= 2
             /\ exact_search(v, k, rd)
    \/ /\ CanCall
       /\ \E v \in Probes, k \in {1, 2}, rd \in BOOLEAN, elect \in {1, 2},
             l \in SeqsUpTo(0..(self.n - 1), 2) :
             /\ Slots([v EXCEPT !.rows = <<FirstAxisVector(v)>>], k, rd) <= 2
             /\ ann_from_leaves(v, l, Len(l), k, elect, rd)
    \/ /\ CanCall
       /\ \E v \in Probes : get_leaves(v)
    \/ /\ CanCall
       /\ \E v \in Probes, k \in {1, 2}, l \in SeqsUpTo(0..(self.n - 1), 2) :
             get_nearest_leaves(v, l, Len(l), k)
    \/ /\ CanCall
       /\ \E l \in SeqsUpTo(0..MaxId, 2), dimensions \in Dims :
             \E len \in 0..Len(l) :
                get_leaf_info([ndim |-> 1, rows |-> <<l>>], len, dimensions)
    \/ \E ioOK \in BOOLEAN : save(ioOK)
    \/ load
    \/ Return
    \/ mrpt_dealloc

Spec == Init /\ [][Next]_vars

\* Exact search over every dataset of up to MaxN points, with query arrays of
\* the index's dimensionality that ask for up to one neighbour more than
\* there are points; the forest is a single tree of depth 0.
NextExact ==
    \/ /\ phase = "new"
       /\ \E n \in 1..MaxN, dim \in Dims :
             \E a \in Arrays(n, dim) : Mrpt_init(a, n, dim, 0, 1, FALSE, TRUE, TRUE, TRUE, TRUE)
    \/ build(<<<<>>>>)
    \/ /\ CanCall
       /\ \E v \in Matching(self.dim), k \in 1..Min(MaxK, self.n + 1),
             rd \in BOOLEAN : exact_search(v, k, rd)
    \/ /\ CanCall
       /\ \E v \in Matching(self.dim), rd \in BOOLEAN :
             v.ndim = 1 /\ ann(v, 1, 1, rd)
    \/ Return
    \/ mrpt_dealloc

SpecExact == InitInit /\ [][NextExact]_vars

(***************************************************************************)
(* Construction and destruction: Mrpt_init may run again on an object that *)
(* is initialised already.                                                 *)
(***************************************************************************)
MaxInits == 2    \* calls of Mrpt_init on one object

\* datasets of no, one and two points and one that fills more than a page
ReleaseCounts == {0, 1, 2, PageFloats + 1}

\* a dataset file of count floats
FileOf(count) ==
    [kind |-> "file", exists |-> TRUE, st_size |-> 4 * count,
     floats |-> [i \in 1..count |-> i % 2]]

ReleaseFiles ==
    {FileOf(c) : c \in ReleaseCounts \ {0}}
    \cup {[kind |-> "file", exists |-> FALSE, st_size |-> 0, floats |-> <<>>]}

\* the points have one coordinate, the forest is one tree of depth 1
NextRelease ==
    \/ /\ inits < MaxInits
       /\ \E n \in ReleaseCounts, newOK \in BOOLEAN :
             Mrpt_init(Ramp(n, 1), n, 1, 1, 1, FALSE, TRUE, TRUE, TRUE, newOK)
    \/ /\ inits < MaxInits
       /\ \E n \in ReleaseCounts \ {0}, file \in ReleaseFiles, mmapArg \in BOOLEAN,
             fopenOK \in BOOLEAN :
             \E mmapOK \in IF mmapArg /\ fopenOK THEN BOOLEAN ELSE {TRUE},
                allocOK \in IF mmapArg THEN {TRUE} ELSE BOOLEAN,
                newOK \in IF fopenOK THEN BOOLEAN ELSE {TRUE} :
                Mrpt_init(file, n, 1, 1, 1, mmapArg, fopenOK, mmapOK, allocOK, newOK)
    \/ /\ CanCall
       /\ \E rngs \in Rngs(engine.n_trees, engine.depth, self.dim) : build(rngs)
    \/ Return
    \/ mrpt_dealloc

SpecRelease == InitInit /\ [][NextRelease]_vars

(***************************************************************************)
(* The vote filter on its own: it reads no field of the index object.      *)
(***************************************************************************)

InitFilter ==
    /\ fl \in SeqsUpTo(0..MaxId, MaxLen)
    /\ fcall = NoCall
    /\ fprev = NoCall
    /\ phase = "ready"
    /\ self = NewObject
    /\ mem = <<>>
    /\ bufs = NoBufs
    /\ engine = NoEngine
    /\ disk = [exists |-> FALSE]
    /\ call = NoCall
    /\ initRes = NoCall
    /\ inits = 0

NextFilter ==
    \E num_leaves \in 0..Len(fl), votes_required \in VoteThresholds :
        \E stray \in [StrayIds(fl, num_leaves) -> StrayWords],
           crash \in {FALSE} \cup {StrayIds(fl, num_leaves) # {}} :
            filter_leaves_by_votes(num_leaves, votes_required, stray, crash)

SpecFilter == InitFilter /\ [][NextFilter]_vars


(***************************************************************************)
(* Properties.                                                             *)
(***************************************************************************)
QueryOps == {"ann", "ann_from_leaves", "get_leaves", "exact_search"}

RowsOf(c) == 1..Len(c.qs)

\* the distance of dataset point i to q, for the object's dataset
D(q, i) == DistTo(mem, self.dim, q, i)

\* idx lists k different points of 0..n-1 in ascending order of distance and
\* no point left out is nearer than a listed one
IsKNearest(idx, q, k) ==
    /\ Len(idx) = k
    /\ \A i \in 1..k : idx[i] \in 0..(self.n - 1)
    /\ \A i, j \in 1..k : i < j => idx[i] # idx[j] /\ D(q, idx[i]) <= D(q, idx[j])
    /\ \A p \in 0..(self.n - 1) :
          (\A i \in 1..k : idx[i] # p) => \A i \in 1..k : D(q, idx[i]) <= D(q, p)

\* C1: whatever ran before, exact_search on a query vector of the index's
\* dimensionality returns, for every query row, the k nearest of all points
\* 0..n-1 (all n of them when k > n): different points in ascending order of
\* distance such that no point left out is nearer; returned distances are
\* those of the listed points.
C1_ExactSearchIsBruteForce ==
    (call.op = "exact_search" /\ call.status = "returned") =>
        \A r \in RowsOf(call) :
            Len(call.qs[r]) = self.dim =>
                LET m == Min(call.k, self.n)
                IN  /\ Len(call.ret[r].idx) = call.k
                    /\ IsKNearest(SubSeq(call.ret[r].idx, 1, m), call.qs[r], m)
                    /\ call.ret[r].dist # <<>> =>
                          \A i \in 1..m :
                              call.ret[r].dist[i]
                                  = D(call.qs[r], call.ret[r].idx[i])

\* an exact search for 2 of 3 points, made after a build, whose nearest point
\* is not point 0 and whose two results lie at different distances
C1_Witness ==
    /\ call.op = "exact_search" /\ call.status = "returned"
    /\ call.grown /\ self.n = 3 /\ call.k = 2
    /\ Len(call.qs[1]) = self.dim
    /\ call.ret[1].idx[1] # 0
    /\ call.ret[1].dist # <<>>
    /\ call.ret[1].dist[1] < call.ret[1].dist[2]

\* C2: a query made on a constructed index on which no build() has completed
\* fails with NotBuilt and returns no result.
C2_QueryBeforeBuildFails ==
    (call.op \in QueryOps /\ self.ptr = "engine" /\ ~call.grown) =>
        /\ call.status = "raised"
        /\ call.exc = "NotBuilt"
        /\ call.ret = <<>>

\* C3: ann and exact_search on a query vector whose length differs from the
\* index's dim fail with DimensionMismatch and return no result array (the
\* index has been built, so nothing else stands in the way).
C3_WrongDimensionFails ==
    (/\ call.op \in {"ann", "exact_search"}
     /\ call.grown
     /\ \E r \in RowsOf(call) : Len(call.qs[r]) # self.dim) =>
        /\ call.status = "raised"
        /\ call.exc = "DimensionMismatch"
        /\ call.ret = <<>>

\* C4: an approximate query with parameter k whose candidate set has c
\* members returns an index array of exactly min(k, c) entries.
C4_ResultHasMinKC ==
    (/\ call.op \in {"ann", "ann_from_leaves"}
     /\ call.status = "returned"
     /\ \A r \in RowsOf(call) : call.errs[r] = "ok") =>
        \A r \in RowsOf(call) :
            Len(call.ret[r].idx) = Min(call.k, Len(call.cands[r]))

\* the ids of list whose t-th occurrence exists, in the order of those occurrences
RECURSIVE TakeHits(_, _, _)
TakeHits(list, t, i) ==
    IF i > Len(list) THEN <<>>
    ELSE (IF Cardinality({j \in 1..i : list[j] = list[i]}) = t THEN <<list[i]>> ELSE <<>>)
         \o TakeHits(list, t, i + 1)

WholeList(c) == c.op = "filter_leaves_by_votes" /\ c.num_leaves = Len(fl)

\* C5: for a threshold t >= 1 the filter returns exactly the ids occurring at
\* least t times in the list, each once, in the order of their t-th occurrence.
C5_FilterReturnsVoted ==
    (WholeList(fcall) /\ fcall.votes_required >= 1) =>
        /\ ~fcall.crashed
        /\ fcall.ret.data = TakeHits(fl, fcall.votes_required, 1)

\* C6: for a threshold <= 1 the filter returns every id that appears in the
\* list (stated for lists whose ids all lie inside the tally).
C6_LowThresholdKeepsAll ==
    (WholeList(fcall) /\ fcall.votes_required <= 1 /\ ~fcall.oob) =>
        {fcall.ret.data[i] : i \in 1..Len(fcall.ret.data)} = {fl[i] : i \in 1..Len(fl)}

\* C7: for one list and thresholds t1 < t2 the filter's result for t2 has no
\* more members than its result for t1 (stated for lists whose ids all lie
\* inside the tally).
C7_ThresholdMonotone ==
    (/\ WholeList(fcall) /\ WholeList(fprev)
     /\ ~fcall.oob /\ ~fprev.oob
     /\ fprev.votes_required < fcall.votes_required) =>
        Len(fcall.ret.data) <= Len(fprev.ret.data)

\* C8 as stated: destroying the index releases the engine object and never
\* releases a dataset buffer, whatever the index was created from.
C8_NeverReleasesDataset ==
    phase = "freed" =>
        /\ self.ptr = "engine" => engine.state = "released"
        /\ \A i \in DOMAIN bufs :
              bufs[i].kind \in {"array", "heap", "mmap"} => bufs[i].state = "live"

\* the destructor has run: to its end, or until the process ended in it
Destroyed == phase \in {"freed", "killed"}

\* C8 amended: destroying the index releases the engine ptr points to, and of
\* the dataset buffers only the one data points to, the buffer the last
\* successful Mrpt_init from a file read or mapped: a buffer that was read is
\* freed; a mapping is unmapped over the length of the object's current
\* n * dim floats (the int product), that is entirely if this covers the
\* mapping, in its leading pages only if it is shorter, and not at all if
\* munmap refuses the length (it is 0 or negative).  A caller's array,
\* and the buffers and engines of earlier Mrpt_init calls on the object, are
\* left allocated, unless the length reaches behind the mapping: then, and
\* only then, other memory can be unmapped with it and the destructor can end
\* the process.  After at most one Mrpt_init the length is the mapping's.
C8_ReleasesOwnBufferOnly ==
    Destroyed =>
        /\ self.ptr = "engine" =>
              \/ engine.state = "released"
              \/ phase = "killed" /\ engine.state = "unmapped"
        /\ phase = "killed" => PagesBeyond(self, bufs) > 0
        /\ inits <= 1 => PagesBeyond(self, bufs) = 0
        /\ \A i \in DOMAIN bufs :
              IF i = self.data
              THEN /\ bufs[i].kind = IF self.mmap THEN "mmap" ELSE "heap"
                   /\ bufs[i].state =
                         IF ~self.mmap THEN "deleted"
                         ELSE IF LengthPages(self.n, self.dim) = 0 THEN "live"
                         ELSE IF LengthPages(self.n, self.dim) < bufs[i].pages
                              THEN "partly unmapped"
                              ELSE "unmapped"
                   /\ inits <= 1 => bufs[i].state \in {"deleted", "unmapped"}
              ELSE \/ bufs[i].state = "live"
                   \/ /\ PagesBeyond(self, bufs) > 0
                      /\ bufs[i].state = "unmapped"

\* an object that mapped a file of two pages and was then initialised again
\* from an array of one point has been built and destroyed: the mapping has
\* lost its first page only, the array and the first engine are left
C8_Witness ==
    /\ phase = "freed"
    /\ inits = 2
    /\ self.data # 0 /\ self.mmap /\ self.n = 1
    /\ bufs[self.data] = [kind |-> "mmap", state |-> "partly unmapped", pages |-> 2]
    /\ \E i \in DOMAIN bufs : bufs[i] = Buffer("array", 0)
    /\ \E i \in DOMAIN bufs : bufs[i] = Buffer("engine", 0)
    /\ engine.grown /\ engine.state = "released"

\* C9: construction from a file gets past the size check only if st_size is
\* exactly 4 * n * dim, and a dataset view that comes to exist holds exactly
\* n * dim floats.
C9_SizeCheckIsExact ==
    (initRes.op = "Mrpt_init" /\ initRes.kind = "file") =>
        /\ initRes.sized =>
              LowBytes(Bytes4(initRes.st_size), 12) = ExactBytes(initRes.n, initRes.dim)
        /\ initRes.ret = 0 =>
              LowBytes(Bytes4(4 * Len(mem)), 12) = ExactBytes(initRes.n, initRes.dim)

\* C10: on a list of non-negative ids whose length is num_leaves the filter
\* touches no word outside the tally of num_leaves slots.
C10_TallyAccessInBounds ==
    WholeList(fcall) => ~fcall.oob

====
